---- MODULE Spec2Model ----
(***************************************************************************)
(* Model of libsbgn.js, src/libsbgn-annotations.js: the Annotation         *)
(* container, RdfElement import/export, and the three textual fixup passes *)
(* of RdfElement.prototype.toXML (replaceBag, replaceLi, replaceParseType),*)
(* and of checkParams, src/utilities.js.                                   *)
(*                                                                         *)
(* Texts are sequences of chunks; a chunk is a literal piece of the text   *)
(* and the text is the concatenation of its chunks.  The chunks are chosen *)
(* so that every literal of a regular expression is a whole number of      *)
(* chunks and cannot arise across a chunk boundary in any other way, so a  *)
(* match on characters is a match on chunks.                               *)
(*                                                                         *)
(* rdflib, N3 and xmldom are third-party engines.  What they do with a     *)
(* given RDF block is part of the block (its engine outcome class); what   *)
(* the RDF/XML writer emits for a store is a choice among RawOutputs.      *)
(***************************************************************************)
EXTENDS Integers, Sequences, FiniteSets, TLC

VARIABLES
    rdfElements,  \* Annotation.rdfElements: the graphs of the container in hand
    graph,        \* RdfElement.graph: the store of the RdfElement in hand
    ret,          \* the last call: operation, argument, outcome, value
    str,          \* the text a fixup pass is applied to
    lastPass      \* the function applied last to str ("none": str is an input)

vars == <<rdfElements, graph, ret, str, lastPass>>

----------------------------------------------------------------------------
(* Bounds *)

MaxRdf == 2        \* graphs held by one container
MaxChildren == 2   \* child elements of one XML element
MaxBagLen == 5     \* chunks of a text given to replaceBag
MaxItems == 2      \* list items of a text given to replaceLi
MaxBody == 2       \* body elements of one list item
MaxPTLen == 4      \* chunks of a text given to replaceParseType
MaxTriples == 4    \* triples of an array given to simpleWriteTriples
MaxNames == 2      \* names handed to checkParams
MaxItemBody == 3   \* body elements of a list item given alone to replaceLi
MaxIds == 2        \* ids of an array given to setIdListFromArray
MaxIdLen == 2      \* characters of one id

----------------------------------------------------------------------------
(* Sequences *)

RECURSIVE Flatten(_)
Flatten(ss) == IF ss = <<>> THEN <<>> ELSE Head(ss) \o Flatten(Tail(ss))

SeqsUpTo(S, n) == UNION {[1..k -> S] : k \in 0..n}

Min(S) == CHOOSE x \in S : \A y \in S : x <= y

----------------------------------------------------------------------------
(* Chunks of RDF/XML text *)

DescOpen == "<rdf:Description>"
DescClose == "</rdf:Description>"
TypeBag == "<rdf:type rdf:resource=\"http://www.w3.org/1999/02/22-rdf-syntax-ns#Bag\"/>"
BagOpen == "<rdf:Bag>"
BagClose == "</rdf:Bag>"
Indent4 == "    "
QualItem == "<rdf:li rdf:resource=\"http://identifiers.org/pubmed/1833774\"/>"

LiOpen == "<rdf:li>"
LiOpenPT == "<rdf:li rdf:parseType=\"Resource\">"
LiClose == "</rdf:li>"
ValueOpen == "<rdf:value>"
ValueClose == "</rdf:value>"
KeyText == "data"
ValueText == "42"

PropOpen == "<eisbm:hasProperty>"
PropOpenPT == "<eisbm:hasProperty rdf:parseType=\"Resource\">"
PropClose == "</eisbm:hasProperty>"

\* ' rdf:parseType="Resource"' cut in two, and the attribute after a tab
PTa == " rdf:parseType="
PTb == "\"Resource\""
PTtab == "\trdf:parseType="

Prefixes == {"sio", "eisbm"}

KeyOpen(p) == IF p = "sio" THEN "<sio:SIO_000116>" ELSE "<eisbm:SIO_000116>"
KeyClose(p) == IF p = "sio" THEN "</sio:SIO_000116>" ELSE "</eisbm:SIO_000116>"
\* the head of the replacement of replaceLi, '<rdf:li $2:SIO_000116="'
CompactOpen(p) == IF p = "sio" THEN "<rdf:li sio:SIO_000116=\""
                  ELSE "<rdf:li eisbm:SIO_000116=\""
CompactMid == "\" rdf:value=\""
CompactEnd == "\"/>"

----------------------------------------------------------------------------
(* How a lazy pattern matches.  Every gap of regexpBag and regexpLi is      *)
(* [\s\S]*?, which takes the fewest characters from which the rest of the   *)
(* pattern still matches.  If the rest matches from some later position it  *)
(* matches from every earlier one, so each literal is found at its first    *)
(* occurrence after the literal before it, and a start that fails makes     *)
(* every later start fail.  Only the key's closing tag depends on what was  *)
(* matched before it (the backreference \2).                                *)

\* the first position at or after from that holds chunk c, 0 when there is none
FirstAt(s, from, c) ==
    IF \E x \in from..Len(s) : s[x] = c
    THEN Min({x \in from..Len(s) : s[x] = c})
    ELSE 0

\* FirstAt after position x, when x is itself a match (x # 0)
Then(s, x, c) == IF x = 0 THEN 0 ELSE FirstAt(s, x + 1, c)

----------------------------------------------------------------------------
(* Pass A: replaceBag, libsbgn-annotations.js 188-194 *)

\* regexpBag: <rdf:Description>([\s\S]*?)<rdf:type ...#Bag"/>[\s\S]*?</rdf:Description>
\* the first match at or after from: <<i, j, k>>, the opening tag, the type
\* element and the closing tag; k = 0 when nothing matches
BagMatch(s, from) ==
    LET i == FirstAt(s, from, DescOpen)
        j == Then(s, i, TypeBag)
        k == Then(s, j, DescClose)
    IN  <<i, j, k>>

\* string.replace(regexpBag, '<rdf:Bag>$2</rdf:Bag>'), matches taken left to right
RECURSIVE ReplaceBagFrom(_, _)
ReplaceBagFrom(s, from) ==
    LET mt == BagMatch(s, from)
    IN  IF mt[3] = 0 THEN SubSeq(s, from, Len(s))
        ELSE SubSeq(s, from, mt[1] - 1) \o <<BagOpen>> \o SubSeq(s, mt[1] + 1, mt[2] - 1)
                 \o <<BagClose>> \o ReplaceBagFrom(s, mt[3] + 1)

\* result1.replace(/    <\/rdf:Bag>/g, '</rdf:Bag>'): the four spaces right
\* before a closing rdf:Bag tag are removed
RECURSIVE StripBagIndent(_)
StripBagIndent(s) ==
    IF s = <<>> THEN <<>>
    ELSE IF Len(s) >= 2 /\ s[1] = Indent4 /\ s[2] = BagClose
         THEN <<BagClose>> \o StripBagIndent(SubSeq(s, 3, Len(s)))
         ELSE <<s[1]>> \o StripBagIndent(Tail(s))

replaceBag(string) == StripBagIndent(ReplaceBagFrom(string, 1))

----------------------------------------------------------------------------
(* Pass B: replaceLi, libsbgn-annotations.js 182-186 *)

\* an opening tag that must carry the marker: the group without its '?'
IsLiOpen_MarkedOnly(c) == c = LiOpenPT
IsLiOpen(c) == c \in {LiOpen, LiOpenPT}
IsKeyOpen(c) == \E p \in Prefixes : c = KeyOpen(p)
KeyPrefix(c) == CHOOSE p \in Prefixes : c = KeyOpen(p)

\* regexpLi: <rdf:li( rdf:parseType="Resource")?>[\s\S]*?<(\w+):SIO_000116>([\s\S]*?)
\*           </\2:SIO_000116>[\s\S]*?<rdf:value>([\s\S]*?)</rdf:value>[\s\S]*?</rdf:li>
\* With the key's opening tag at j: its closing tag (same prefix) at k,
\* <rdf:value> at l, </rdf:value> at m, </rdf:li> at n; n = 0 when the rest
\* of the pattern does not match after j.
LiTail(s, j) ==
    LET k == FirstAt(s, j + 1, KeyClose(KeyPrefix(s[j])))
        l == Then(s, k, ValueOpen)
        m == Then(s, l, ValueClose)
        n == Then(s, m, LiClose)
    IN  <<k, l, m, n>>

\* the first position at or after from that opens a list item, 0 when none
FirstLiOpen(s, from) ==
    IF \E x \in from..Len(s) : IsLiOpen(s[x])
    THEN Min({x \in from..Len(s) : IsLiOpen(s[x])})
    ELSE 0

\* the key opening tags after i from which the rest of the pattern matches
LiKeys(s, i) == {j \in (i + 1)..Len(s) : IsKeyOpen(s[j]) /\ LiTail(s, j)[4] # 0}

\* the first match at or after from: <<i, j, k, l, m, n>>; n = 0 when nothing matches
LiMatch(s, from) ==
    LET i == FirstLiOpen(s, from)
    IN  IF i = 0 \/ LiKeys(s, i) = {} THEN <<0, 0, 0, 0, 0, 0>>
        ELSE LET j == Min(LiKeys(s, i)) IN <<i, j>> \o LiTail(s, j)

\* the replacement with the prefix written out instead of taken from $2
LiReplacement_FixedPrefix(s, mt) ==
    <<CompactOpen("sio")>> \o SubSeq(s, mt[2] + 1, mt[3] - 1)
        \o <<CompactMid>> \o SubSeq(s, mt[4] + 1, mt[5] - 1) \o <<CompactEnd>>

\* '<rdf:li $2:SIO_000116="$3" rdf:value="$4"/>'
LiReplacement(s, mt) ==
    <<CompactOpen(KeyPrefix(s[mt[2]]))>> \o SubSeq(s, mt[2] + 1, mt[3] - 1)
        \o <<CompactMid>> \o SubSeq(s, mt[4] + 1, mt[5] - 1) \o <<CompactEnd>>

RECURSIVE ReplaceLiFrom(_, _)
ReplaceLiFrom(s, from) ==
    LET mt == LiMatch(s, from)
    IN  IF mt[6] = 0 THEN SubSeq(s, from, Len(s))
        ELSE SubSeq(s, from, mt[1] - 1) \o LiReplacement(s, mt)
                 \o ReplaceLiFrom(s, mt[6] + 1)

replaceLi(string) == ReplaceLiFrom(string, 1)

----------------------------------------------------------------------------
(* Pass C: replaceParseType, libsbgn-annotations.js 196-199 *)

\* a chunk that holds ' rdf:parseType="Resource"' loses it
StripPT(c) == IF c = LiOpenPT THEN LiOpen
              ELSE IF c = PropOpenPT THEN PropOpen
              ELSE c

\* string.replace(/ rdf:parseType="Resource"/g, ''): one scan, left to right
RECURSIVE replaceParseType(_)
replaceParseType(string) ==
    IF string = <<>> THEN <<>>
    ELSE IF Len(string) >= 2 /\ string[1] = PTa /\ string[2] = PTb
         THEN replaceParseType(SubSeq(string, 3, Len(string)))
         ELSE <<StripPT(string[1])>> \o replaceParseType(Tail(string))

\* the text holds rdf:parseType="Resource"
HasParseType(s) ==
    \E i \in 1..Len(s) :
        \/ s[i] \in {LiOpenPT, PropOpenPT}
        \/ i < Len(s) /\ s[i] \in {PTa, PTtab} /\ s[i + 1] = PTb

----------------------------------------------------------------------------
(* checkParams, utilities.js 7-21 *)

\* the property names of a params object and of names
ParamNames == {"graph", "id", "name"}

\* what params[name] holds: "absent" when the object has no such property,
\* else undefined, null or a value
PropStates == {"absent", "undefined", "null", "x"}

\* A JavaScript value handed as params: its kind, and for an object its
\* properties.
NoProps == [n \in ParamNames |-> "absent"]
EmptyObject == [kind |-> "object", props |-> NoProps]
ParamValues ==
    {[kind |-> "object", props |-> o] : o \in [ParamNames -> PropStates]}
        \cup {[kind |-> k, props |-> NoProps] :
                  k \in {"undefined", "null", "number", "string", "boolean", "function"}}

\* typeof v
TypeOf(v) == IF v.kind = "null" THEN "object" ELSE v.kind

\* the loop of checkParams from names[i] on, 14-19
RECURSIVE SetMissing(_, _, _)
SetMissing(props, names, i) ==
    IF i > Len(names) THEN props
    ELSE LET argName == names[i]
         IN  IF props[argName] \in {"absent", "undefined"}
             THEN SetMissing([props EXCEPT ![argName] = "null"], names, i + 1)
             ELSE SetMissing(props, names, i + 1)

\* a loop that starts at the second name
checkParams_SkipFirst(params, names) ==
    LET p == IF TypeOf(params) = "undefined" \/ params.kind = "null"
             THEN EmptyObject ELSE params
    IN  IF TypeOf(p) # "object"
        THEN [status |-> "thrown", value |-> EmptyObject]
        ELSE [status |-> "returned",
              value |-> [kind |-> "object", props |-> SetMissing(p.props, names, 2)]]

\* ns.checkParams, 7-21
checkParams(params, names) ==
    LET p == IF TypeOf(params) = "undefined" \/ params.kind = "null"
             THEN EmptyObject ELSE params
    IN  IF TypeOf(p) # "object"
        THEN [status |-> "thrown", value |-> EmptyObject]
        ELSE [status |-> "returned",
              value |-> [kind |-> "object", props |-> SetMissing(p.props, names, 1)]]

----------------------------------------------------------------------------
(* Style.idList, libsbgn-render.js 308-320 (and the copy in utilities.js,  *)
(* 319-331).  A string is the sequence of its characters.                  *)

\* the ids of an array: strings without a space, the empty string among them
IdChars == {"a", "b"}
Ids(n) == SeqsUpTo(IdChars, n)
IdArrays(nIds, nLen) == SeqsUpTo(Ids(nLen), nIds)

\* Array.prototype.join(' '): the elements with one space between
\* neighbours, the empty string for an empty array
RECURSIVE Join(_)
Join(idArray) ==
    IF idArray = <<>> THEN <<>>
    ELSE IF Len(idArray) = 1 THEN idArray[1]
    ELSE idArray[1] \o <<" ">> \o Join(Tail(idArray))

\* String.prototype.split(' '): the pieces between the spaces; a string
\* without a space, the empty string too, is one piece
RECURSIVE Split(_)
Split(string) ==
    LET e == FirstAt(string, 1, " ")
    IN  IF e = 0 THEN <<string>>
        ELSE <<SubSeq(string, 1, e - 1)>> \o Split(SubSeq(string, e + 1, Len(string)))

----------------------------------------------------------------------------
(* Triples, stores, RDF blocks, XML elements *)

T1 == [subject |-> "http://www.eisbm.org/#_000001",
       predicate |-> "http://biomodels.net/model-qualifiers/is",
       object |-> "http://identifiers.org/biomodels.db/BIOMD0000000004",
       graph |-> ""]
T2 == [subject |-> "http://www.eisbm.org/#_000001",
       predicate |-> "http://biomodels.net/model-qualifiers/isDescribedBy",
       object |-> "http://identifiers.org/pubmed/1833774",
       graph |-> ""]

\* a statement of a named graph
T3 == [subject |-> "http://www.eisbm.org/#_000002",
       predicate |-> "http://biomodels.net/biology-qualifiers/is",
       object |-> "http://identifiers.org/uniprot/P12345",
       graph |-> "http://www.eisbm.org/g"]

\* the stores handed to addRDF and held by an RdfElement
Graphs == {<<>>, <<T1, T2>>}

\* An rdf:RDF block with what the engines do with it: triples are the
\* statements it holds; rdfxml tells whether $rdf.parse accepts it, parsed how
\* many statements the engine's graph holds when the parse ends (all of them,
\* or those read before the error); exchange tells whether rendering the graph
\* to Turtle and parsing it with N3 succeeds.
BlockValid == [triples |-> <<T1, T2>>, rdfxml |-> "ok", parsed |-> 2, exchange |-> "ok"]
BlockInvalidEmpty == [triples |-> <<T1>>, rdfxml |-> "throws", parsed |-> 0, exchange |-> "ok"]
BlockInvalidPartial == [triples |-> <<T1, T2>>, rdfxml |-> "throws", parsed |-> 1, exchange |-> "ok"]
BlockInvalidExchange == [triples |-> <<T1>>, rdfxml |-> "throws", parsed |-> 0, exchange |-> "throws"]
NoBlock == [triples |-> <<>>, rdfxml |-> "ok", parsed |-> 0, exchange |-> "ok"]

Blocks == {BlockValid, BlockInvalidEmpty, BlockInvalidPartial, BlockInvalidExchange}

RdfNode(b) == [tagName |-> "rdf:RDF", block |-> b, childNodes |-> <<>>]
Element(tag, kids) == [tagName |-> tag, block |-> NoBlock, childNodes |-> kids]
NoXml == Element("", <<>>)

\* the children of the element handed to Annotation.fromXML: RDF blocks and
\* an element that wraps an RDF block
ChildNodes == {RdfNode(b) : b \in Blocks \ {BlockInvalidEmpty}}
                  \cup {Element("extension", <<RdfNode(BlockValid)>>)}

XmlInputs == {Element(tag, kids) : tag \in {"annotation", "glyph"},
                                   kids \in SeqsUpTo(ChildNodes, MaxChildren)}

\* Element.getElementsByTagName (DOM): every descendant with that tag name,
\* in document order
RECURSIVE Descendants(_)
Descendants(xml) ==
    Flatten([i \in 1..Len(xml.childNodes) |->
                <<xml.childNodes[i]>> \o Descendants(xml.childNodes[i])])

getElementsByTagName(xml, name) ==
    SelectSeq(Descendants(xml), LAMBDA e : e.tagName = name)

\* the immediate children with that tag name
ChildrenByTagName(xml, name) ==
    SelectSeq(xml.childNodes, LAMBDA e : e.tagName = name)

----------------------------------------------------------------------------
(* RdfElement, libsbgn-annotations.js 109-246 *)

\* writer.simpleWriteTriple, 139-144
simpleWriteTriple(subject, predicate, object, g) ==
    <<"<", subject, ">", " ", "<", predicate, ">", " ", "<", object, ">">>
        \o (IF g # "" THEN <<" ", "<", g, ">", ".\n">> ELSE <<".\n">>)

\* a writer that leaves out a triple equal to the one before it
RECURSIVE simpleWriteTriples_Merging(_)
simpleWriteTriples_Merging(array) ==
    IF array = <<>> THEN <<>>
    ELSE LET triple == Head(array)
         IN  (IF Len(array) >= 2 /\ array[2] = triple THEN <<>>
              ELSE simpleWriteTriple(triple.subject, triple.predicate, triple.object,
                                     triple.graph))
                 \o simpleWriteTriples_Merging(Tail(array))

\* writer.simpleWriteTriples, 146-153
RECURSIVE simpleWriteTriples(_)
simpleWriteTriples(array) ==
    IF array = <<>> THEN <<>>
    ELSE LET triple == Head(array)
         IN  simpleWriteTriple(triple.subject, triple.predicate, triple.object, triple.graph)
                 \o simpleWriteTriples(Tail(array))

\* what $rdf.serialize may hand to the fixup passes
ExpandedItem(open, p) ==
    <<open, KeyOpen(p), KeyText, KeyClose(p), ValueOpen, ValueText, ValueClose, LiClose>>

RawOutputs ==
    { <<DescOpen, QualItem, Indent4, TypeBag, DescClose>>,
      <<DescOpen, TypeBag, QualItem, DescClose>>,
      <<PropOpenPT, DescOpen>> \o ExpandedItem(LiOpenPT, "sio")
          \o <<Indent4, TypeBag, DescClose, PropClose>>,
      <<PropOpen, DescOpen>> \o ExpandedItem(LiOpen, "eisbm")
          \o <<Indent4, Indent4, TypeBag, DescClose, PropClose>>,
      <<PropOpenPT, QualItem, PropClose>>,
      <<LiOpen, DescOpen, KeyOpen("sio"), KeyText, KeyClose("sio"), TypeBag,
        ValueOpen, ValueText, ValueClose, DescClose, LiClose>> }

\* line 201: replaceParseType(replaceLi(replaceBag(serialize)))
FixupPasses_LiFirst == <<"replaceLi", "replaceBag", "replaceParseType">>
FixupPasses == <<"replaceBag", "replaceLi", "replaceParseType">>

ApplyPass(name, s) ==
    CASE name = "replaceBag" -> replaceBag(s)
      [] name = "replaceLi" -> replaceLi(s)
      [] name = "replaceParseType" -> replaceParseType(s)

\* the passes applied in turn, each to the output of the one before
RECURSIVE ApplyPasses(_, _)
ApplyPasses(passes, s) ==
    IF passes = <<>> THEN s
    ELSE ApplyPasses(Tail(passes), ApplyPass(Head(passes), s))

\* RdfElement.prototype.toXML, 131-204, on store g when the writer emits raw
RdfElementToXML(g, raw) ==
    [n3 |-> simpleWriteTriples(g),
     passes |-> FixupPasses,
     text |-> ApplyPasses(FixupPasses, raw)]

\* RdfElement.fromXML, 221-246.  Only $rdf.parse is inside try/catch (230-234);
\* $rdf.serialize, parser.parse and store.addTriples (237-241) are not.
RdfElementFromXML(xml) ==
    IF xml.tagName # "rdf:RDF"
    THEN [status |-> "thrown", graph |-> <<>>, logged |-> 0]
    ELSE LET b == xml.block
             logged == IF b.rdfxml = "throws" THEN 1 ELSE 0
         IN  IF b.exchange = "throws"
             THEN [status |-> "thrown", graph |-> <<>>, logged |-> logged]
             ELSE [status |-> "returned",
                   graph |-> SubSeq(b.triples, 1, b.parsed),
                   logged |-> logged]

----------------------------------------------------------------------------
(* Annotation, libsbgn-annotations.js 49-100 *)

\* Annotation.prototype.buildXmlObj, 64-72: the loop over rdfElements adds
\* nothing to the element
AnnotationBuildXmlObj(elements) == Element("annotation", <<>>)

\* XMLSerializer.serializeToString of an element without RDF content
RECURSIVE serializeToString(_)
serializeToString(e) ==
    IF e.childNodes = <<>> THEN <<"<", e.tagName, "/>">>
    ELSE <<"<", e.tagName, ">">>
             \o Flatten([i \in 1..Len(e.childNodes) |-> serializeToString(e.childNodes[i])])
             \o <<"</", e.tagName, ">">>

\* Annotation.prototype.toXML, 77-79
AnnotationToXML(elements) == serializeToString(AnnotationBuildXmlObj(elements))

\* the loop of Annotation.fromXML, 92-97
RECURSIVE ImportAll(_, _)
ImportAll(rdfs, acc) ==
    IF rdfs = <<>>
    THEN [status |-> "returned", graphs |-> acc.graphs,
          logged |-> acc.logged, imports |-> acc.imports]
    ELSE LET rdf == RdfElementFromXML(Head(rdfs))
         IN  IF rdf.status = "thrown"
             THEN [status |-> "thrown", graphs |-> <<>>,
                   logged |-> acc.logged + rdf.logged, imports |-> acc.imports + 1]
             ELSE ImportAll(Tail(rdfs),
                            [graphs |-> Append(acc.graphs, rdf.graph),
                             logged |-> acc.logged + rdf.logged,
                             imports |-> acc.imports + 1])

\* Annotation.fromXML, 85-100
AnnotationFromXML_Lenient(xml) ==
    LET r == ImportAll(getElementsByTagName(xml, "rdf:RDF"),
                       [graphs |-> <<>>, logged |-> 0, imports |-> 0])
    IN  IF xml.tagName # "annotation" /\ r.status = "returned"
        THEN [r EXCEPT !.logged = r.logged + 1]
        ELSE r

AnnotationFromXML(xml) ==
    IF xml.tagName # "annotation"
    THEN [status |-> "thrown", graphs |-> <<>>, logged |-> 0, imports |-> 0]
    ELSE ImportAll(getElementsByTagName(xml, "rdf:RDF"),
                   [graphs |-> <<>>, logged |-> 0, imports |-> 0])

----------------------------------------------------------------------------
(* The calls *)

NoCall == [op |-> "none", status |-> "none", xml |-> NoXml, graphs |-> <<>>,
           element |-> NoXml, raw |-> <<>>, text |-> <<>>, passes |-> <<>>,
           n3 |-> <<>>, logged |-> 0, imports |-> 0]

Init ==
    /\ rdfElements = <<>>
    /\ graph = <<>>
    /\ ret = NoCall
    /\ str = <<>>
    /\ lastPass = "none"

\* annotation.addRDF(new RdfElement({graph: g}))
AddRDF ==
    \E g \in Graphs :
        /\ Len(rdfElements) < MaxRdf
        /\ rdfElements' = Append(rdfElements, g)
        /\ ret' = [NoCall EXCEPT !.op = "addRDF", !.status = "returned",
                                 !.graphs = <<g>>]
        /\ UNCHANGED <<graph, str, lastPass>>

\* annotation.toXML()
CallAnnotationToXML ==
    /\ ret' = [NoCall EXCEPT !.op = "Annotation.toXML", !.status = "returned",
                             !.element = AnnotationBuildXmlObj(rdfElements),
                             !.text = AnnotationToXML(rdfElements)]
    /\ UNCHANGED <<rdfElements, graph, str, lastPass>>

\* annotation = Annotation.fromXML(xml)
CallAnnotationFromXML ==
    \E xml \in XmlInputs :
        LET r == AnnotationFromXML(xml)
        IN  /\ ret' = [NoCall EXCEPT !.op = "Annotation.fromXML", !.status = r.status,
                                     !.xml = xml, !.graphs = r.graphs,
                                     !.logged = r.logged, !.imports = r.imports]
            /\ rdfElements' = IF r.status = "returned" THEN r.graphs ELSE rdfElements
            /\ UNCHANGED <<graph, str, lastPass>>

\* rdfElement = RdfElement.fromXML(xml)
CallRdfElementFromXML ==
    \E xml \in {RdfNode(b) : b \in Blocks} \cup {Element("annotation", <<>>)} :
        LET r == RdfElementFromXML(xml)
        IN  /\ ret' = [NoCall EXCEPT !.op = "RdfElement.fromXML", !.status = r.status,
                                     !.xml = xml,
                                     !.graphs = IF r.status = "returned"
                                                THEN <<r.graph>> ELSE <<>>,
                                     !.logged = r.logged]
            /\ graph' = IF r.status = "returned" THEN r.graph ELSE graph
            /\ UNCHANGED <<rdfElements, str, lastPass>>

\* rdfElement.toXML(); raw is what $rdf.serialize returns
CallRdfElementToXML ==
    \E raw \in RawOutputs :
        LET r == RdfElementToXML(graph, raw)
        IN  /\ ret' = [NoCall EXCEPT !.op = "RdfElement.toXML", !.status = "returned",
                                     !.graphs = <<graph>>, !.raw = raw, !.n3 = r.n3,
                                     !.text = r.text, !.passes = r.passes]
            /\ UNCHANGED <<rdfElements, graph, str, lastPass>>

Next ==
    \/ AddRDF
    \/ CallAnnotationToXML
    \/ CallAnnotationFromXML
    \/ CallRdfElementFromXML
    \/ CallRdfElementToXML

Spec == Init /\ [][Next]_vars

----------------------------------------------------------------------------
(* The fixup passes as functions of a text.  Each specification draws the  *)
(* text from a bounded set and applies one pass to it, again and again.    *)

PassInit(texts) ==
    /\ rdfElements = <<>>
    /\ graph = <<>>
    /\ ret = NoCall
    /\ str \in texts
    /\ lastPass = "none"

\* Pass A on every text of at most MaxBagLen chunks
BagChunks == {DescOpen, TypeBag, DescClose, Indent4, BagClose, QualItem}
BagTexts(n) == SeqsUpTo(BagChunks, n)

ApplyReplaceBag ==
    /\ str' = replaceBag(str)
    /\ lastPass' = "replaceBag"
    /\ UNCHANGED <<rdfElements, graph, ret>>

InitBag == PassInit(BagTexts(MaxBagLen))
SpecBag == InitBag /\ [][ApplyReplaceBag]_vars

\* Pass B on texts of at most MaxItems list items.  The body of an item is at
\* most MaxBody elements, each a key-designator element or an rdf:value
\* element.  Within one text the items open the same way, the keys carry the
\* same prefix, and the rdf:value elements wrap either text or a whole
\* expanded item.
KeyElem(p) == <<KeyOpen(p), KeyText, KeyClose(p)>>
ValueElem == <<ValueOpen, ValueText, ValueClose>>
NestedValue(p) == <<ValueOpen>> \o ExpandedItem(LiOpen, p) \o <<ValueClose>>
ValueElems(p) == {ValueElem, NestedValue(p)}
ItemBodies(p, v, n) == {Flatten(b) : b \in SeqsUpTo({KeyElem(p), v}, n)}
Items(open, p, v, n) == {<<open>> \o body \o <<LiClose>> : body \in ItemBodies(p, v, n)}
LiTexts(nItems, nBody) ==
    UNION {{Flatten(t) : t \in SeqsUpTo(Items(open, p, v, nBody), nItems)} :
               <<open, p, v>> \in {<<o, q, w>> \in {LiOpen, LiOpenPT} \X Prefixes
                                       \X (ValueElems("sio") \cup ValueElems("eisbm")) :
                                       w \in ValueElems(q)}}

ApplyReplaceLi ==
    /\ str' = replaceLi(str)
    /\ lastPass' = "replaceLi"
    /\ UNCHANGED <<rdfElements, graph, ret>>

InitLi == PassInit(LiTexts(MaxItems, MaxBody))
SpecLi == InitLi /\ [][ApplyReplaceLi]_vars

\* Pass B on one list item whose body is at most MaxItemBody elements, each
\* a key-designator element, an rdf:value element or another predicate element
PropElem == <<PropOpen, ValueText, PropClose>>
ItemTexts(n) ==
    {<<open>> \o Flatten(b) \o <<LiClose>> :
         open \in {LiOpen, LiOpenPT},
         b \in UNION {SeqsUpTo({KeyElem(p), ValueElem, PropElem}, n) : p \in Prefixes}}

InitLiItem == PassInit(ItemTexts(MaxItemBody))
SpecLiItem == InitLiItem /\ [][ApplyReplaceLi]_vars

\* Pass B and Pass C applied one after the other, in either order, to the
\* texts of SpecLi
PassOrders == {<<"replaceLi", "replaceParseType">>, <<"replaceParseType", "replaceLi">>}

ApplyInOrder ==
    \E order \in PassOrders :
        /\ ret.op = "none"
        /\ ret' = [NoCall EXCEPT !.op = "fixups", !.status = "returned", !.raw = str,
                                 !.passes = order, !.text = ApplyPasses(order, str)]
        /\ UNCHANGED <<rdfElements, graph, str, lastPass>>

InitOrder == PassInit(LiTexts(MaxItems, MaxBody))
SpecOrder == InitOrder /\ [][ApplyInOrder]_vars

\* Pass C on every text of at most MaxPTLen chunks
PTChunks == {LiOpenPT, LiOpen, PTa, PTb, PTtab}
PTTexts(n) == SeqsUpTo(PTChunks, n)

ApplyReplaceParseType ==
    /\ str' = replaceParseType(str)
    /\ lastPass' = "replaceParseType"
    /\ UNCHANGED <<rdfElements, graph, ret>>

InitParseType == PassInit(PTTexts(MaxPTLen))
SpecParseType == InitParseType /\ [][ApplyReplaceParseType]_vars

\* simpleWriteTriples on every array of at most MaxTriples triples, as
\* this.graph.getTriples() may return it
TripleArrays(n) == SeqsUpTo({T1, T2, T3}, n)

ApplySimpleWriteTriples ==
    /\ str' = simpleWriteTriples(graph)
    /\ lastPass' = "simpleWriteTriples"
    /\ UNCHANGED <<rdfElements, graph, ret>>

InitWrite ==
    /\ rdfElements = <<>>
    /\ graph \in TripleArrays(MaxTriples)
    /\ ret = NoCall
    /\ str = <<>>
    /\ lastPass = "none"

SpecWrite == InitWrite /\ [][ApplySimpleWriteTriples]_vars

\* checkParams on every params value and every list of at most MaxNames names
ApplyCheckParams ==
    /\ ret.op = "none"
    /\ LET r == checkParams(ret.params, ret.names)
       IN  ret' = [ret EXCEPT !.op = "checkParams", !.status = r.status,
                              !.value = r.value]
    /\ UNCHANGED <<rdfElements, graph, str, lastPass>>

InitParams ==
    /\ rdfElements = <<>>
    /\ graph = <<>>
    /\ ret \in {[op |-> "none", status |-> "none", params |-> p, names |-> n,
                  value |-> EmptyObject] :
                     p \in ParamValues, n \in SeqsUpTo(ParamNames, MaxNames)}
    /\ str = <<>>
    /\ lastPass = "none"

SpecParams == InitParams /\ [][ApplyCheckParams]_vars

\* A Style built without idList: this.idList is null (lastPass = "none")
\* until setIdListFromArray assigns it; from then on str holds it.
NoStyleCall == [op |-> "none", status |-> "none", idArray |-> <<>>, value |-> <<>>]

InitStyle ==
    /\ rdfElements = <<>>
    /\ graph = <<>>
    /\ ret = NoStyleCall
    /\ str = <<>>
    /\ lastPass = "none"

\* style.setIdListFromArray(idArray), 318-320
SetIdListFromArray ==
    \E idArray \in IdArrays(MaxIds, MaxIdLen) :
        /\ str' = Join(idArray)
        /\ lastPass' = "setIdListFromArray"
        /\ ret' = [NoStyleCall EXCEPT !.op = "setIdListFromArray",
                                      !.status = "returned", !.idArray = idArray]
        /\ UNCHANGED <<rdfElements, graph>>

\* style.getIdListAsArray(), 311-313; null.split throws a TypeError
GetIdListAsArray ==
    /\ ret' = IF lastPass = "none"
              THEN [ret EXCEPT !.op = "getIdListAsArray", !.status = "thrown",
                               !.value = <<>>]
              ELSE [ret EXCEPT !.op = "getIdListAsArray", !.status = "returned",
                               !.value = Split(str)]
    /\ UNCHANGED <<rdfElements, graph, str, lastPass>>

SpecStyle == InitStyle /\ [][SetIdListFromArray \/ GetIdListAsArray]_vars

----------------------------------------------------------------------------
(* Claims *)

\* C3: Annotation.toXML returns the annotation element holding one exported
\* RDF block per graph of the container, in the order the graphs were added.
C3_ToXMLHoldsEveryGraph ==
    ret.op = "Annotation.toXML" =>
        /\ ret.element.tagName = "annotation"
        /\ Len(ret.element.childNodes) = Len(rdfElements)

\* C4: Annotation.fromXML on an element whose tag is not 'annotation' throws
\* to the caller: nothing is logged, no RdfElement.fromXML call is made and
\* no container is returned.
C4_WrapperMismatchThrows ==
    (ret.op = "Annotation.fromXML" /\ ret.xml.tagName # "annotation") =>
        /\ ret.status = "thrown"
        /\ ret.logged = 0
        /\ ret.imports = 0
        /\ ret.graphs = <<>>

\* a glyph element holding an rdf:RDF child was handed to Annotation.fromXML
C4_Witness ==
    /\ ret.op = "Annotation.fromXML"
    /\ ret.xml.tagName = "glyph"
    /\ getElementsByTagName(ret.xml, "rdf:RDF") # <<>>
    /\ ret.status = "thrown"

\* C5: RdfElement.fromXML on an invalid RDF block never throws to the caller
\* and returns an RdfElement whose graph is an empty store.
C5_InvalidBlockDegradesToEmpty ==
    (/\ ret.op = "RdfElement.fromXML"
     /\ ret.xml.tagName = "rdf:RDF"
     /\ ret.xml.block.rdfxml = "throws") =>
        /\ ret.status = "returned"
        /\ ret.graphs = << <<>> >>

\* C6: the container Annotation.fromXML returns holds exactly one graph per
\* immediate rdf:RDF child of the annotation element, in document order.
C6_OneGraphPerImmediateChild ==
    (/\ ret.op = "Annotation.fromXML"
     /\ ret.xml.tagName = "annotation"
     /\ ret.status = "returned") =>
        LET kids == ChildrenByTagName(ret.xml, "rdf:RDF")
        IN  /\ Len(ret.graphs) = Len(kids)
            /\ \A i \in 1..Len(kids) :
                   ret.graphs[i] = RdfElementFromXML(kids[i]).graph

\* C7: RdfElement.toXML applies replaceBag, then replaceLi, then
\* replaceParseType, once each, and returns what replaceParseType returns.
C7_PassesInOrder ==
    ret.op = "RdfElement.toXML" =>
        /\ ret.passes = <<"replaceBag", "replaceLi", "replaceParseType">>
        /\ ret.text = replaceParseType(replaceLi(replaceBag(ret.raw)))

\* toXML ran on a writer output that each of the three passes changes
C7_Witness ==
    /\ ret.op = "RdfElement.toXML"
    /\ replaceBag(ret.raw) # ret.raw
    /\ replaceLi(replaceBag(ret.raw)) # replaceBag(ret.raw)
    /\ ret.text # replaceLi(replaceBag(ret.raw))

\* C8: replaceBag applied to its own output changes nothing.
C8_ReplaceBagIdempotent ==
    lastPass = "replaceBag" => replaceBag(str) = str

\* C9: replaceLi applied to its own output changes nothing.
C9_ReplaceLiIdempotent ==
    lastPass = "replaceLi" => replaceLi(str) = str

\* C10: the output of replaceParseType holds no rdf:parseType="Resource",
\* and replaceParseType applied to it changes nothing.
C10_ReplaceParseTypeComplete ==
    lastPass = "replaceParseType" =>
        /\ ~HasParseType(str)
        /\ replaceParseType(str) = str

\* the text holds a whole expanded item: an rdf:li whose body is a key
\* designator wrapping text followed by an rdf:value wrapping text
HoldsExpandedItem(s) ==
    \E i \in 1..Len(s), open \in {LiOpen, LiOpenPT}, p \in Prefixes :
        /\ i + 7 <= Len(s)
        /\ SubSeq(s, i, i + 7) = ExpandedItem(open, p)

\* C11: on the serializer's raw output, with the Bag still an
\* rdf:Description holding rdf:type and the items still expanded, replaceLi
\* applied before replaceBag matches nothing and returns the text unchanged.
C11_LiBeforeBagMatchesNothing ==
    (/\ ret.op = "RdfElement.toXML"
     /\ \E i \in 1..Len(ret.raw) : ret.raw[i] = TypeBag
     /\ HoldsExpandedItem(ret.raw)) =>
        replaceLi(ret.raw) = ret.raw

\* C12: when replaceLi rewrites an expanded item, the item becomes one
\* self-closing rdf:li with two attributes: <prefix>:SIO_000116, under the
\* prefix of the item's key designator, holding the key text, and rdf:value
\* holding the value text.  Stated of the first rdf:li of the text: what is
\* before it is kept, and what follows it is rewritten in its turn.
C12_CompactItemCarriesKeyAndValue ==
    [][\A open \in {LiOpen, LiOpenPT}, p \in Prefixes :
           LET i == FirstLiOpen(str, 1)
           IN  (/\ lastPass' = "replaceLi"
                /\ i # 0
                /\ i + 7 <= Len(str)
                /\ SubSeq(str, i, i + 7) = ExpandedItem(open, p)) =>
                   str' = SubSeq(str, 1, i - 1)
                              \o <<CompactOpen(p), KeyText, CompactMid, ValueText, CompactEnd>>
                              \o replaceLi(SubSeq(str, i + 8, Len(str)))]_vars

\* replaceLi has rewritten an expanded item whose key designator is under eisbm
C12_Witness ==
    /\ lastPass = "replaceLi"
    /\ \E i \in 1..Len(str) :
           /\ i + 4 <= Len(str)
           /\ SubSeq(str, i, i + 4)
                  = <<CompactOpen("eisbm"), KeyText, CompactMid, ValueText, CompactEnd>>

\* the statement lines of an exchange text: what lies before each '.\n'
RECURSIVE StatementLines(_)
StatementLines(text) ==
    IF FirstAt(text, 1, ".\n") = 0 THEN IF text = <<>> THEN <<>> ELSE <<text>>
    ELSE LET e == FirstAt(text, 1, ".\n")
         IN  <<SubSeq(text, 1, e - 1)>> \o StatementLines(SubSeq(text, e + 1, Len(text)))

\* the terms of a statement line, in the order written
Terms(line) == SelectSeq(line, LAMBDA c : c \notin {"<", ">", " "})

\* C13: the text simpleWriteTriples builds has one statement line per triple
\* of the array, in the array's order: the i-th line holds the subject, the
\* predicate, the object and, when there is one, the graph of the i-th
\* triple; duplicates get a line each.
C13_OneLinePerTriple ==
    lastPass = "simpleWriteTriples" =>
        LET lines == StatementLines(str)
        IN  /\ Len(lines) = Len(graph)
            /\ \A i \in 1..Len(lines) :
                   Terms(lines[i])
                       = <<graph[i].subject, graph[i].predicate, graph[i].object>>
                             \o (IF graph[i].graph # "" THEN <<graph[i].graph>> ELSE <<>>)

\* the array written held the same triple twice in a row and a triple of a
\* named graph
C13_Witness ==
    /\ lastPass = "simpleWriteTriples"
    /\ \E i \in 1..(Len(graph) - 1) : graph[i] = graph[i + 1]
    /\ \E i \in 1..Len(graph) : graph[i].graph # ""

\* C15: checkParams treats an undefined or null params as an empty object,
\* throws when params is of any other type than object, and else returns
\* the object with every name of names that held nothing (no property, or
\* undefined) set to null and every other property as it was.
C15_CheckParams ==
    ret.op = "checkParams" =>
        LET given == IF ret.params.kind \in {"undefined", "null"}
                     THEN NoProps ELSE ret.params.props
            named == {ret.names[i] : i \in 1..Len(ret.names)}
        IN  IF ret.params.kind \in {"object", "undefined", "null"}
            THEN /\ ret.status = "returned"
                 /\ ret.value.kind = "object"
                 /\ \A n \in ParamNames :
                        ret.value.props[n]
                            = IF n \in named /\ given[n] \in {"absent", "undefined"}
                              THEN "null" ELSE given[n]
            ELSE ret.status = "thrown"

\* checkParams returned for an object that lacked one of the names and held
\* a value under another
C15_Witness ==
    /\ ret.op = "checkParams"
    /\ ret.status = "returned"
    /\ \E i, j \in 1..Len(ret.names) :
           /\ ret.params.props[ret.names[i]] = "absent"
           /\ ret.params.props[ret.names[j]] = "x"

\* the text is one rdf:Description that holds the Bag rdf:type once and no
\* other rdf:Description or rdf:Bag tag
SingleBagDescription(s) ==
    /\ Len(s) >= 3
    /\ s[1] = DescOpen
    /\ s[Len(s)] = DescClose
    /\ Cardinality({i \in 2..(Len(s) - 1) : s[i] = TypeBag}) = 1
    /\ \A i \in 2..(Len(s) - 1) : s[i] \notin {DescOpen, DescClose, BagClose}

\* C16: when replaceBag rewrites an rdf:Description that holds the Bag
\* rdf:type, the rdf:Bag it writes wraps everything else the Description
\* held, before and after rdf:type; only rdf:type and indentation are dropped.
C16_BagWrapsAllOtherContent ==
    [][(lastPass' = "replaceBag" /\ SingleBagDescription(str)) =>
           LET kept == SelectSeq(SubSeq(str, 2, Len(str) - 1),
                                 LAMBDA c : c \notin {TypeBag, Indent4})
           IN  /\ Len(str') >= 2
               /\ str'[1] = BagOpen
               /\ str'[Len(str')] = BagClose
               /\ SelectSeq(SubSeq(str', 2, Len(str') - 1), LAMBDA c : c # Indent4) = kept]_vars

\* the text starts with an rdf:Description that holds no Bag rdf:type up to
\* its closing tag at k, an rdf:Description that holds one follows it, and
\* no rdf:Bag has been written into the text yet
PlainDescriptionFirst(s, k) ==
    /\ s # <<>>
    /\ s[1] = DescOpen
    /\ k = FirstAt(s, 2, DescClose)
    /\ k # 0
    /\ \A i \in 1..k : s[i] # TypeBag
    /\ BagMatch(s, k + 1)[3] # 0
    /\ \A i \in 1..Len(s) : s[i] # BagClose

\* C18: replaceBag rewrites an rdf:Description only when the Bag rdf:type
\* lies in its own body: an rdf:Description without it, followed by one that
\* has it, is left as it was, closing tag included.
C18_RewriteStaysInOneDescription ==
    [][\A k \in 1..Len(str) :
           (lastPass' = "replaceBag" /\ PlainDescriptionFirst(str, k)) =>
               /\ Len(str') >= k
               /\ SubSeq(str', 1, k) = SubSeq(str, 1, k)]_vars

\* the text is one list item, with no other rdf:li tag inside it
SingleItem(s) ==
    /\ Len(s) >= 2
    /\ IsLiOpen(s[1])
    /\ s[Len(s)] = LiClose
    /\ \A i \in 2..(Len(s) - 1) : ~IsLiOpen(s[i]) /\ s[i] # LiClose

\* the body of the item is a key-designator element wrapping text followed
\* by an rdf:value element wrapping text, and nothing else
ExactPair(s) ==
    \E open \in {LiOpen, LiOpenPT}, p \in Prefixes : s = ExpandedItem(open, p)

\* C17: replaceLi rewrites an rdf:li only when its body is exactly a key
\* designator followed by an rdf:value; an rdf:li whose body holds anything
\* more (another predicate element, a second key or value) is left unchanged.
C17_OnlyExactPairRewritten ==
    [][(lastPass' = "replaceLi" /\ SingleItem(str) /\ ~ExactPair(str)) =>
           str' = str]_vars

\* the text holds a whole expanded item marked rdf:parseType="Resource"
HoldsMarkedItem(s) ==
    \E i \in 1..Len(s), p \in Prefixes :
        /\ i + 7 <= Len(s)
        /\ SubSeq(s, i, i + 7) = ExpandedItem(LiOpenPT, p)

\* C19: for a text that holds an expanded item marked
\* rdf:parseType="Resource", replaceParseType before replaceLi gives another
\* result than replaceLi before replaceParseType.
C19_ParseTypeFirstDiffers ==
    (ret.op = "fixups" /\ HoldsMarkedItem(ret.raw)) =>
        replaceLi(replaceParseType(ret.raw)) # replaceParseType(replaceLi(ret.raw))

\* C19, amended: replaceLi matches an item with or without the marker.  For
\* a text that holds an expanded item marked rdf:parseType="Resource",
\* replaceLi still rewrites the text once replaceParseType has removed the
\* marker, and the two passes give the same result in either order.
C19_LiMatchesWithoutMarker ==
    (ret.op = "fixups" /\ HoldsMarkedItem(ret.raw)) =>
        /\ replaceLi(replaceParseType(ret.raw)) # replaceParseType(ret.raw)
        /\ ret.text = replaceParseType(replaceLi(ret.raw))

\* replaceParseType, then replaceLi, ran on a text holding a marked item
C19_Witness ==
    /\ ret.op = "fixups"
    /\ ret.passes = <<"replaceParseType", "replaceLi">>
    /\ HoldsMarkedItem(ret.raw)
    /\ ret.text # replaceParseType(ret.raw)

\* the list items of the text follow one another, none inside another
FlatItems(s) ==
    \A i \in 1..Len(s) :
        IsLiOpen(s[i]) =>
            LET c == FirstAt(s, i, LiClose)
            IN  /\ c # 0
                /\ \A x \in (i + 1)..c : ~IsLiOpen(s[x])

\* the rdf:li elements of the text, expanded or compacted
NumItems(s) ==
    Cardinality({i \in 1..Len(s) :
                    IsLiOpen(s[i]) \/ \E p \in Prefixes : s[i] = CompactOpen(p)})

\* C20: one rewrite of replaceLi never spans more than one list item: the
\* text it replaces starts at an rdf:li opening tag and ends at the closing
\* tag of that item, so the output holds as many list items as the input.
C20_RewriteStaysInOneItem ==
    [][(lastPass' = "replaceLi" /\ FlatItems(str)) =>
           /\ LET mt == LiMatch(str, 1)
              IN  mt[6] # 0 => mt[6] = FirstAt(str, mt[1], LiClose)
           /\ NumItems(str') = NumItems(str)]_vars

\* C21: for every array of ids without a space, the empty array too,
\* getIdListAsArray right after setIdListFromArray(a) returns an array equal
\* to a.
C21_IdListRoundTrip ==
    (ret.op = "getIdListAsArray" /\ ret.status = "returned") =>
        ret.value = ret.idArray

====
